---- MODULE Spec2Model ----
(***************************************************************************)
(* The URL shortener microservice (express handlers over the in-memory     *)
(* urlDatabase Map) and the logging middleware it awaits.                  *)
(*                                                                         *)
(* Node runs one handler at a time; a handler gives up the event loop only *)
(* at an `await Log(...)`.  Each action below is one such run-to-await     *)
(* segment of a handler.  The pc of a request names the source line of the *)
(* await it is suspended at.                                               *)
(*                                                                         *)
(* Time is counted in ticks of half a minute.  Strings that the code       *)
(* inspects character by character (shortcodes) are sequences of           *)
(* one-character strings.  An optional JSON property is a set: {} when the *)
(* property is absent (undefined), {v} when it is v.                       *)
(***************************************************************************)
EXTENDS Integers, Sequences, FiniteSets, TLC

VARIABLES
    urlDatabase,   \* the Map shortcode -> urlEntry
    now,           \* the wall clock, what `new Date()` reads
    nextId,        \* number of uuidv4() calls made so far (the next fresh id)
    req,           \* the handler invocations in flight, by slot
    response,      \* the HTTP response the last step sent, NoResponse if none
    logResult,     \* the value the Log call awaited by the last step settled
                   \* with, "none" if the step resumed from no await
    redirectsSent  \* history: per shortcode, the 302 responses sent so far

vars == <<urlDatabase, now, nextId, req, response, logResult, redirectsSent>>

----------------------------------------------------------------------------
(* Bounds of the model *)

\* handler invocations that can be in flight at once
NumReqs == 2
\* the clock stops at this tick
MaxClock == 3
\* redirect requests are admitted for an alias only below this many clicks
MaxClicks == 2

----------------------------------------------------------------------------
(* Values *)

Undefined == {}
Some(v) == {v}
Val(m) == CHOOSE x \in m : TRUE

LowerChars == {"a","b","c","d","e","f","g","h","i","j","k","l","m",
               "n","o","p","q","r","s","t","u","v","w","x","y","z"}
UpperChars == {"A","B","C","D","E","F","G","H","I","J","K","L","M",
               "N","O","P","Q","R","S","T","U","V","W","X","Y","Z"}
DigitChars == {"0","1","2","3","4","5","6","7","8","9"}
\* the alphabet of generateShortCode, the class [a-zA-Z0-9]
chars == LowerChars \cup UpperChars \cup DigitChars

\* shortcodes used as inputs
CodeEmpty == << >>
CodeAb == <<"a","b">>
CodeAbc == <<"a","b","c">>
CodeDash == <<"a","-","c">>
CodeGen1 == <<"a","a","a","a","a","a">>
CodeGen2 == <<"a","a","a","a","a","b">>
CodeLong == <<"a","a","a","a","a","a","a","a","a","a","a",
              "a","a","a","a","a","a","a","a","a","a">>

\* a generator whose alphabet has a character outside the pattern
GenCodesWithDash == {CodeGen1, CodeDash}

\* the codes Math.random() lets generateShortCode produce in the model
GenCodes == {CodeGen1, CodeGen2}

\* URLs, by the parts validator.isURL looks at
Url1 == [protocol |-> "https", host |-> "example.com", path |-> "/page"]
Url2 == [protocol |-> "https", host |-> "example.org", path |-> "/other"]
UrlNoProtocol == [protocol |-> "", host |-> "example.com", path |-> "/page"]
UrlEmptyString == [protocol |-> "", host |-> "", path |-> ""]

----------------------------------------------------------------------------
(* Program constants *)

\* `validityMinutes * 60 * 1000`: the length of a minute on the model's clock
TicksPerMinute == 2
\* `let validityMinutes = 30; // default`
DefaultValidity == 30

\* JSON numbers, by what the code asks of them: n, n + 0.5, or n * 10^12
Num(n) == [n |-> n, half |-> FALSE, e12 |-> FALSE]
NumAndHalf(n) == [n |-> n, half |-> TRUE, e12 |-> FALSE]
NumE12(n) == [n |-> n, half |-> FALSE, e12 |-> TRUE]

\* Number.isInteger(validity)
NumberIsInteger(v) == ~v.half
\* the comparison strict: a validity of 0 let through
LessThanZero(v) == v.n < 0

\* validity <= 0
LeqZero(v) == v.n < 0 \/ (v.n = 0 /\ ~v.half)

\* a validity that is a positive integer, 10^12 minutes, but carries the
\* expiry past the largest time value a Date holds (8.64e15 ms)
HugeValidity == NumE12(1)

----------------------------------------------------------------------------
(* Helpers of the URL shortener *)

\* /^[a-zA-Z0-9]{3,20}$/.test(shortcode)
isValidShortcode(shortcode) ==
    /\ Len(shortcode) >= 3
    /\ Len(shortcode) <= 20
    /\ \A i \in 1..Len(shortcode) : shortcode[i] \in chars

\* validator.isURL(url, { require_protocol: true }) with the library's
\* defaults: a protocol among http, https, ftp and a host with a
\* top-level domain
isURL(url) ==
    /\ url.protocol \in {"http", "https", "ftp"}
    /\ url.host \in {"example.com", "example.org"}

\* `!url` for a request property: undefined or the empty string
IsFalsyUrl(url) == url = Undefined \/ url = Some(UrlEmptyString)

\* `if (shortcode)`: a property that is present and not the empty string
IsTruthyCode(shortcode) == shortcode # Undefined /\ shortcode # Some(CodeEmpty)

\* the validity taken for clock ticks instead of minutes
calculateExpiryTicks(validityMinutes, t) ==
    IF validityMinutes.e12
      THEN [threw |-> TRUE, value |-> 0]
      ELSE [threw |-> FALSE, value |-> t + validityMinutes.n]

\* calculateExpiry read at clock value t.  new Date(ms) beyond the largest
\* time value is an invalid Date and toISOString() throws a RangeError on it;
\* within the range toISOString() and the later `new Date(expiryDate)` give
\* the same time value back.
calculateExpiry(validityMinutes, t) ==
    IF validityMinutes.e12
      THEN [threw |-> TRUE, value |-> 0]
      ELSE [threw |-> FALSE, value |-> t + validityMinutes.n * TicksPerMinute]

\* the comparison not strict: expired at the instant of expiry already
isExpiredAtExpiry(expiryDate, t) == t >= expiryDate

\* isExpired read at clock value t: `new Date() > new Date(expiryDate)`
isExpired(expiryDate, t) == t > expiryDate

\* Addresses are sequences of one-character strings, the empty sequence
\* standing for the falsy ones (undefined, "").
IpLoopback == <<":", ":", "1">>
IpLoopback4 == <<"1", "2", "7", ".", "0", ".", "0", ".", "1">>
IpUnknown == <<"U", "n", "k", "n", "o", "w", "n">>

\* b.charCodeAt(0) for the characters of an address: '.' to ':' are the
\* codes 46 to 58, 'A' is 65, 'a' is 97
CodesFromDot == <<".", "/", "0", "1", "2", "3", "4", "5", "6", "7", "8", "9", ":">>
CodesFromUpperA == <<"A", "B", "C", "D", "E", "F", "G", "H", "I", "J", "K", "L", "M",
                     "N", "O", "P", "Q", "R", "S", "T", "U", "V", "W", "X", "Y", "Z">>
CodesFromLowerA == <<"a", "b", "c", "d", "e", "f", "g", "h", "i", "j", "k", "l", "m",
                     "n", "o", "p", "q", "r", "s", "t", "u", "v", "w", "x", "y", "z">>

charCodeAt(b) ==
    LET at(s) == CHOOSE i \in 1..Len(s) : s[i] = b
        in(s) == \E i \in 1..Len(s) : s[i] = b
    IN  IF in(CodesFromDot) THEN 45 + at(CodesFromDot)
        ELSE IF in(CodesFromUpperA) THEN 64 + at(CodesFromUpperA)
        ELSE 96 + at(CodesFromLowerA)

\* lines 70-73: a = ((a << 5) - a) + code, cut to 32 bits by `a & a`, over
\* the characters of the address from the left.  The 32-bit value is kept
\* as its two 16-bit halves.
IpHash(ip) ==
    LET step(a, b) ==
          LET lo == 31 * a.lo + charCodeAt(b)
          IN  [hi |-> (31 * a.hi + lo \div 65536) % 65536, lo |-> lo % 65536]
        reduce[n \in 0..Len(ip)] ==
          IF n = 0 THEN [hi |-> 0, lo |-> 0] ELSE step(reduce[n - 1], ip[n])
    IN  reduce[Len(ip)]

mockLocations ==
    << [country |-> "United States", city |-> "New York"],
       [country |-> "United Kingdom", city |-> "London"],
       [country |-> "Germany", city |-> "Berlin"],
       [country |-> "India", city |-> "Mumbai"],
       [country |-> "Canada", city |-> "Toronto"] >>

\* getLocationFromIP.  Math.abs(hash) % 5 from the halves of the hash:
\* 65536 and 2^32 are both 1 modulo 5, and a hash with its top bit set is
\* the negative number whose magnitude is 2^32 less the unsigned value.
getLocationFromIP(ip) ==
    IF ip = << >> \/ ip = IpUnknown \/ ip = IpLoopback \/ ip = IpLoopback4
      THEN [country |-> "Unknown", city |-> "Unknown"]
      ELSE LET hash == IpHash(ip)
               unsigned == (hash.hi + hash.lo) % 5
               index == IF hash.hi < 32768 THEN unsigned
                                           ELSE (6 - unsigned) % 5
           IN  mockLocations[index + 1]

\* a has() that never finds the key: the check of lines 136 and 148 lost
MapHasNever(db, key) == FALSE

\* a has() that takes an expired entry for a free key
MapHasUnexpired(db, key) ==
    key \in DOMAIN db /\ ~isExpired(db[key].expiry, now)

\* urlDatabase.has(key)
MapHas(db, key) == key \in DOMAIN db

\* urlDatabase.set(key, value)
MapSet(db, key, value) ==
    [k \in DOMAIN db \cup {key} |-> IF k = key THEN value ELSE db[k]]

----------------------------------------------------------------------------
(* The logging middleware *)

SinkOutcomes == {"ok", "network_error", "timeout", "non_2xx"}

\* a Log without its catch block: a failure of the sink is rethrown
LoggerLogRethrows(sink) ==
    IF sink = "ok"
      THEN [threw |-> FALSE, value |-> "data"]
      ELSE [threw |-> TRUE, value |-> "null"]

\* Logger.Log: the value its promise settles with, for each outcome of the
\* axios post.  Every failure is caught and turned into null.
LoggerLog(sink) ==
    IF sink = "ok"
      THEN [threw |-> FALSE, value |-> "data"]
      ELSE [threw |-> FALSE, value |-> "null"]

\* what an awaited Log call can settle with
LogResults == {LoggerLog(sink) : sink \in SinkOutcomes}

----------------------------------------------------------------------------
(* Requests and responses *)

Reqs == DOMAIN req

Idle == [kind |-> "idle", pc |-> "idle"]
NoResponse == [kind |-> "none", status |-> 0]

\* a synchronous loop holds the event loop: nothing else runs meanwhile
EventLoopBusy == \E r \in Reqs : req[r].pc = "L148"

\* request bodies of POST /shorturls
Body(url, validity, shortcode) ==
    [url |-> url, validity |-> validity, shortcode |-> shortcode]

ErrorResponse(kind, request, status, error) ==
    [kind |-> kind, request |-> request, status |-> status, error |-> error]

\* the outcome of a run-to-await segment: the request's next state, the
\* database, the response if one was sent, the clock and the id counter
Outcome(r, db, res, t, id) ==
    [req |-> r, db |-> db, res |-> res, now |-> t, nextId |-> id]

Apply(r, out) ==
    /\ req' = [req EXCEPT ![r] = out.req]
    /\ urlDatabase' = out.db
    /\ response' = IF out.res = Undefined THEN NoResponse ELSE Val(out.res)
    /\ now' = out.now
    /\ nextId' = out.nextId
    /\ UNCHANGED redirectsSent

----------------------------------------------------------------------------
(* POST /shorturls *)

\* lines 151-175: expiry read at clock t, createdAt read at clock t + d
StoreEntry(body, validityMinutes, finalShortcode, db, t, d, id) ==
    LET expiryDate == calculateExpiry(validityMinutes, t)
        urlEntry == [id |-> id,
                     originalUrl |-> Val(body.url),
                     shortcode |-> finalShortcode,
                     expiry |-> expiryDate.value,
                     createdAt |-> t + d,
                     clickCount |-> 0,
                     clicks |-> << >>]
    IN  IF expiryDate.threw
          THEN \* RangeError, caught at line 183
               Outcome(Idle, db,
                       Some(ErrorResponse("create", body, 500,
                                          "Internal server error")),
                       t, id)
          ELSE Outcome([kind |-> "create", pc |-> "L175", body |-> body,
                        finalShortcode |-> finalShortcode,
                        expiryDate |-> expiryDate.value,
                        id |-> id],
                       MapSet(db, finalShortcode, urlEntry),
                       Undefined, t + d, id + 1)

\* the checks in another order: the validity before the url
PostAfterLogValidityFirst(body, log, db, t, d, g, id) ==
    LET refused(status, error) ==
          Outcome(Idle, db,
                  Some(ErrorResponse("create", body, status, error)), t, id)
        validityMinutes == IF body.validity # Undefined
                             THEN Val(body.validity)
                             ELSE Num(DefaultValidity)
    IN  IF /\ body.validity # Undefined
           /\ (~NumberIsInteger(Val(body.validity)) \/ LeqZero(Val(body.validity)))
          THEN refused(400, "Invalid validity period")
        ELSE IF IsFalsyUrl(body.url)
          THEN Outcome([kind |-> "create", pc |-> "L95", body |-> body],
                       db, Undefined, t, id)
        ELSE IF ~isURL(Val(body.url))
          THEN Outcome([kind |-> "create", pc |-> "L105", body |-> body],
                       db, Undefined, t, id)
        ELSE IF IsTruthyCode(body.shortcode)
          THEN IF ~isValidShortcode(Val(body.shortcode))
                 THEN refused(400, "Invalid shortcode format")
               ELSE IF MapHas(db, Val(body.shortcode))
                 THEN refused(409, "Shortcode already exists")
               ELSE StoreEntry(body, validityMinutes, Val(body.shortcode),
                               db, t, d, id)
        ELSE IF MapHas(db, g)
          THEN Outcome([kind |-> "create", pc |-> "L148", body |-> body,
                        validityMinutes |-> validityMinutes,
                        finalShortcode |-> g],
                       db, Undefined, t, id)
          ELSE StoreEntry(body, validityMinutes, g, db, t, d, id)

\* lines 90-175, run when the Log call of line 88 has settled with `log`;
\* g is what the first call of generateShortCode returns
PostAfterLog(body, log, db, t, d, g, id) ==
    IF log.threw
      THEN Outcome(Idle, db,
                   Some(ErrorResponse("create", body, 500,
                                      "Internal server error")),
                   t, id)
    ELSE IF IsFalsyUrl(body.url)
      THEN Outcome([kind |-> "create", pc |-> "L95", body |-> body],
                   db, Undefined, t, id)
    ELSE IF ~isURL(Val(body.url))
      THEN Outcome([kind |-> "create", pc |-> "L105", body |-> body],
                   db, Undefined, t, id)
    ELSE IF /\ body.validity # Undefined
            /\ (~NumberIsInteger(Val(body.validity)) \/ LeqZero(Val(body.validity)))
      THEN Outcome(Idle, db,
                   Some(ErrorResponse("create", body, 400,
                                      "Invalid validity period")),
                   t, id)
    ELSE
      LET validityMinutes == IF body.validity # Undefined
                               THEN Val(body.validity)
                               ELSE Num(DefaultValidity)
      IN  IF IsTruthyCode(body.shortcode)
            THEN IF ~isValidShortcode(Val(body.shortcode))
                   THEN Outcome(Idle, db,
                                Some(ErrorResponse("create", body, 400,
                                                   "Invalid shortcode format")),
                                t, id)
                 ELSE IF MapHas(db, Val(body.shortcode))
                   THEN Outcome(Idle, db,
                                Some(ErrorResponse("create", body, 409,
                                                   "Shortcode already exists")),
                                t, id)
                 ELSE StoreEntry(body, validityMinutes,
                                 Val(body.shortcode), db, t, d, id)
            ELSE IF MapHas(db, g)
                   THEN Outcome([kind |-> "create", pc |-> "L148",
                                 body |-> body,
                                 validityMinutes |-> validityMinutes,
                                 finalShortcode |-> g],
                                db, Undefined, t, id)
                   ELSE StoreEntry(body, validityMinutes, g, db, t, d, id)

\* lines 168-181: the response of a creation
CreatedResponse(r) ==
    [kind |-> "create", request |-> r.body, status |-> 201,
     shortLink |-> [protocol |-> "http", host |-> "localhost:3000",
                    path |-> r.finalShortcode],
     expiry |-> r.expiryDate]

\* the request arrives: line 88, up to the await
PostArrive(r) ==
    /\ ~EventLoopBusy
    /\ req[r] = Idle
    /\ req' = [req EXCEPT ![r] = [kind |-> "create", pc |-> "L88"]]
    /\ response' = NoResponse
    /\ logResult' = "none"
    /\ UNCHANGED <<urlDatabase, now, nextId, redirectsSent>>

\* the Log call of line 88 settles: lines 90-175, for a body among `bodies`,
\* the clock moving by one of `drifts` between its two reads
PostValidate(r, bodies, drifts) ==
    /\ ~EventLoopBusy
    /\ req[r].pc = "L88"
    /\ \E body \in bodies, log \in LogResults, d \in drifts :
         \E g \in IF IsTruthyCode(body.shortcode) THEN {CodeGen1} ELSE GenCodes :
           /\ logResult' = log.value
           /\ Apply(r, PostAfterLog(body, log, urlDatabase, now, d, g, nextId))

\* one more turn of the do-while loop of lines 146-148
PostRetry(r, drifts) ==
    /\ req[r].pc = "L148"
    /\ \E d \in drifts, g \in GenCodes :
         IF MapHas(urlDatabase, g)
           THEN /\ req' = [req EXCEPT ![r].finalShortcode = g]
                /\ response' = NoResponse
                /\ UNCHANGED <<urlDatabase, now, nextId, redirectsSent>>
           ELSE Apply(r, StoreEntry(req[r].body, req[r].validityMinutes, g,
                                    urlDatabase, now, d, nextId))
    /\ logResult' = "none"

\* what a creation answers when the Log call of line 95, 105 or 175 has
\* settled with `log`
PostResponse(r, log) ==
    IF log.threw
      THEN ErrorResponse("create", r.body, 500, "Internal server error")
    ELSE IF r.pc = "L95"
      THEN ErrorResponse("create", r.body, 400, "URL is required")
    ELSE IF r.pc = "L105"
      THEN ErrorResponse("create", r.body, 400, "Invalid URL format")
    ELSE CreatedResponse(r)

\* the Log call of line 95, 105 or 175 settles: the response is sent
PostRespond(r) ==
    /\ ~EventLoopBusy
    /\ req[r].kind = "create"
    /\ req[r].pc \in {"L95", "L105", "L175"}
    /\ \E log \in LogResults :
         /\ logResult' = log.value
         /\ response' = PostResponse(req[r], log)
    /\ req' = [req EXCEPT ![r] = Idle]
    /\ UNCHANGED <<urlDatabase, now, nextId, redirectsSent>>

----------------------------------------------------------------------------
(* GET /:shortcode *)

\* lines 284-291 for a request without headers from the loopback address,
\* stamped at clock value t
ClickData(t) ==
    [timestamp |-> t,
     userAgent |-> "Unknown",
     referer |-> "Direct",
     ip |-> IpLoopback,
     location |-> getLocationFromIP(IpLoopback)]

\* the click appended but the counter left as it was: a lost update
RecordClickLostUpdate(urlEntry, clickData) ==
    [urlEntry EXCEPT !.clicks = Append(@, clickData)]

\* the counter incremented but the click not pushed
RecordClickCountOnly(urlEntry, clickData) ==
    [urlEntry EXCEPT !.clickCount = @ + 1]

\* the click put in front of the earlier ones
RecordClickPrepend(urlEntry, clickData) ==
    [urlEntry EXCEPT !.clickCount = @ + 1,
                     !.clicks = <<clickData>> \o @]

\* lines 294-295
RecordClick(urlEntry, clickData) ==
    [urlEntry EXCEPT !.clickCount = @ + 1,
                     !.clicks = Append(@, clickData)]

\* an expired record evicted when its redirect is refused
RedirectSyncEvicting(shortcode, db, t, d, id) ==
    IF ~isValidShortcode(shortcode)
      THEN Outcome(Idle, db,
                   Some(ErrorResponse("redirect", shortcode, 400,
                                      "Invalid shortcode format")),
                   t, id)
    ELSE IF ~MapHas(db, shortcode)
      THEN Outcome(Idle, db,
                   Some(ErrorResponse("redirect", shortcode, 404,
                                      "Short URL not found")),
                   t, id)
    ELSE IF isExpired(db[shortcode].expiry, t)
      THEN Outcome(Idle, [k \in DOMAIN db \ {shortcode} |-> db[k]],
                   Some(ErrorResponse("redirect", shortcode, 410,
                                      "Short URL expired")),
                   t, id)
    ELSE Outcome([kind |-> "redirect", pc |-> "L298", shortcode |-> shortcode],
                 [db EXCEPT ![shortcode] = RecordClick(@, ClickData(t + d))],
                 Undefined, t + d, id)

\* lines 256-298: the expiry check reads the clock at t, the click is
\* stamped at t + d
RedirectSync(shortcode, db, t, d, id) ==
    IF ~isValidShortcode(shortcode)
      THEN Outcome(Idle, db,
                   Some(ErrorResponse("redirect", shortcode, 400,
                                      "Invalid shortcode format")),
                   t, id)
    ELSE IF ~MapHas(db, shortcode)
      THEN Outcome(Idle, db,
                   Some(ErrorResponse("redirect", shortcode, 404,
                                      "Short URL not found")),
                   t, id)
    ELSE IF isExpired(db[shortcode].expiry, t)
      THEN Outcome(Idle, db,
                   Some(ErrorResponse("redirect", shortcode, 410,
                                      "Short URL expired")),
                   t, id)
    ELSE Outcome([kind |-> "redirect", pc |-> "L298", shortcode |-> shortcode],
                 [db EXCEPT ![shortcode] = RecordClick(@, ClickData(t + d))],
                 Undefined, t + d, id)

\* the request arrives and runs up to the await of line 298, or to an error
\* response.  An alias takes redirect requests while it has fewer than
\* `limit` clicks.
RedirectArrive(r, params, drifts, limit) ==
    /\ ~EventLoopBusy
    /\ req[r] = Idle
    /\ \E shortcode \in params, d \in drifts :
         /\ shortcode \in DOMAIN urlDatabase
              => urlDatabase[shortcode].clickCount < limit
         /\ Apply(r, RedirectSync(shortcode, urlDatabase, now, d, nextId))
    /\ logResult' = "none"

\* the 302 responses sent so far for a shortcode
Sent(shortcode) ==
    IF shortcode \in DOMAIN redirectsSent THEN redirectsSent[shortcode] ELSE 0

\* lines 298-312, run when the Log call the request is suspended at has
\* settled with `log`: the request's next state and the response, if one is
\* sent.  When the call of line 298 throws, the catch block awaits Log again
\* at line 307 before it answers 500; when that call throws too the handler
\* ends without a response.
RedirectResponse(r, log, db) ==
    IF r.pc = "L307"
      THEN IF log.threw
             THEN [req |-> Idle, res |-> Undefined]
             ELSE [req |-> Idle,
                   res |-> Some(ErrorResponse("redirect", r.shortcode, 500,
                                              "Internal server error"))]
    ELSE IF log.threw
      THEN [req |-> [kind |-> "redirect", pc |-> "L307",
                     shortcode |-> r.shortcode],
            res |-> Undefined]
    ELSE [req |-> Idle,
          res |-> Some([kind |-> "redirect", request |-> r.shortcode,
                        status |-> 302,
                        location |-> db[r.shortcode].originalUrl])]

\* the Log call of line 298 or 307 settles
RedirectRespond(r) ==
    /\ ~EventLoopBusy
    /\ req[r].kind = "redirect"
    /\ req[r].pc \in {"L298", "L307"}
    /\ \E log \in LogResults :
         LET out == RedirectResponse(req[r], log, urlDatabase)
         IN  /\ logResult' = log.value
             /\ response' = IF out.res = Undefined THEN NoResponse
                                                   ELSE Val(out.res)
             /\ req' = [req EXCEPT ![r] = out.req]
    /\ redirectsSent' = IF response'.status = 302
                          THEN MapSet(redirectsSent, req[r].shortcode,
                                      Sent(req[r].shortcode) + 1)
                          ELSE redirectsSent
    /\ UNCHANGED <<urlDatabase, now, nextId>>

----------------------------------------------------------------------------
(* GET /shorturls/:shortcode *)

\* lines 223-234
Statistics(urlEntry) ==
    [totalClicks |-> urlEntry.clickCount,
     originalUrl |-> urlEntry.originalUrl,
     creationDate |-> urlEntry.createdAt,
     expiryDate |-> urlEntry.expiry,
     clickDetails |-> [i \in 1..Len(urlEntry.clicks) |->
                         [timestamp |-> urlEntry.clicks[i].timestamp,
                          referer |-> urlEntry.clicks[i].referer,
                          userAgent |-> urlEntry.clicks[i].userAgent,
                          location |-> urlEntry.clicks[i].location]]]

\* the request arrives: line 201, up to the await
StatsArrive(r, params) ==
    /\ ~EventLoopBusy
    /\ req[r] = Idle
    /\ \E shortcode \in params :
         req' = [req EXCEPT ![r] = [kind |-> "stats", pc |-> "L201",
                                    shortcode |-> shortcode]]
    /\ response' = NoResponse
    /\ logResult' = "none"
    /\ UNCHANGED <<urlDatabase, now, nextId, redirectsSent>>

\* the lookup counted as a click
StatsAfterLogCounting(r, log, db, t, id) ==
    IF isValidShortcode(r.shortcode) /\ MapHas(db, r.shortcode)
      THEN Outcome([kind |-> "stats", pc |-> "L236", shortcode |-> r.shortcode,
                    statistics |-> Statistics(db[r.shortcode])],
                   [db EXCEPT ![r.shortcode] = RecordClick(@, ClickData(t))],
                   Undefined, t, id)
      ELSE Outcome([kind |-> "stats",
                    pc |-> IF isValidShortcode(r.shortcode) THEN "L215"
                                                            ELSE "L205",
                    shortcode |-> r.shortcode],
                   db, Undefined, t, id)

\* an expired entry treated as not found
StatsAfterLogUnexpired(r, log, db, t, id) ==
    IF /\ isValidShortcode(r.shortcode)
       /\ MapHas(db, r.shortcode)
       /\ ~isExpired(db[r.shortcode].expiry, t)
      THEN Outcome([kind |-> "stats", pc |-> "L236", shortcode |-> r.shortcode,
                    statistics |-> Statistics(db[r.shortcode])],
                   db, Undefined, t, id)
      ELSE Outcome([kind |-> "stats",
                    pc |-> IF isValidShortcode(r.shortcode) THEN "L215"
                                                            ELSE "L205",
                    shortcode |-> r.shortcode],
                   db, Undefined, t, id)

\* lines 203-236, run when the Log call of line 201 has settled with `log`
StatsAfterLog(r, log, db, t, id) ==
    IF log.threw
      THEN Outcome([kind |-> "stats", pc |-> "L242", shortcode |-> r.shortcode],
                   db, Undefined, t, id)
    ELSE IF ~isValidShortcode(r.shortcode)
      THEN Outcome([kind |-> "stats", pc |-> "L205", shortcode |-> r.shortcode],
                   db, Undefined, t, id)
    ELSE IF ~MapHas(db, r.shortcode)
      THEN Outcome([kind |-> "stats", pc |-> "L215", shortcode |-> r.shortcode],
                   db, Undefined, t, id)
    ELSE Outcome([kind |-> "stats", pc |-> "L236", shortcode |-> r.shortcode,
                  statistics |-> Statistics(db[r.shortcode])],
                 db, Undefined, t, id)

\* the Log call of line 201 settles
StatsLookup(r) ==
    /\ ~EventLoopBusy
    /\ req[r].kind = "stats"
    /\ req[r].pc = "L201"
    /\ \E log \in LogResults :
         /\ logResult' = log.value
         /\ Apply(r, StatsAfterLog(req[r], log, urlDatabase, now, nextId))

\* what a statistics request does when the Log call of line 205, 215, 236
\* or 242 has settled with `log`: its next state and the response, if one is
\* sent.  When the call of line 205, 215 or 236 throws, the catch block
\* awaits Log again at line 242 before it answers 500; when the call of
\* line 242 throws the handler ends without a response.
StatsResponse(r, log) ==
    IF r.pc = "L242"
      THEN IF log.threw
             THEN [req |-> Idle, res |-> Undefined]
             ELSE [req |-> Idle,
                   res |-> Some(ErrorResponse("stats", r.shortcode, 500,
                                              "Internal server error"))]
    ELSE IF log.threw
      THEN [req |-> [kind |-> "stats", pc |-> "L242",
                     shortcode |-> r.shortcode],
            res |-> Undefined]
    ELSE IF r.pc = "L205"
      THEN [req |-> Idle,
            res |-> Some(ErrorResponse("stats", r.shortcode, 400,
                                       "Invalid shortcode format"))]
    ELSE IF r.pc = "L215"
      THEN [req |-> Idle,
            res |-> Some(ErrorResponse("stats", r.shortcode, 404,
                                       "Short URL not found"))]
    ELSE [req |-> Idle,
          res |-> Some([kind |-> "stats", request |-> r.shortcode,
                        status |-> 200, statistics |-> r.statistics])]

\* the Log call of line 205, 215, 236 or 242 settles
StatsRespond(r) ==
    /\ ~EventLoopBusy
    /\ req[r].kind = "stats"
    /\ req[r].pc \in {"L205", "L215", "L236", "L242"}
    /\ \E log \in LogResults :
         LET out == StatsResponse(req[r], log)
         IN  /\ logResult' = log.value
             /\ response' = IF out.res = Undefined THEN NoResponse
                                                   ELSE Val(out.res)
             /\ req' = [req EXCEPT ![r] = out.req]
    /\ UNCHANGED <<urlDatabase, now, nextId, redirectsSent>>

----------------------------------------------------------------------------
(* The clock *)

Tick(limit) ==
    /\ now < limit
    /\ now' = now + 1
    /\ response' = NoResponse
    /\ logResult' = "none"
    /\ UNCHANGED <<urlDatabase, nextId, req, redirectsSent>>

----------------------------------------------------------------------------
(* Shortcode allocation: creations only, every kind of body, the clock   *)
(* standing still                                                          *)

AllocBodies ==
    { Body(Undefined, Undefined, Undefined),
      Body(Some(UrlEmptyString), Undefined, Some(CodeAbc)),
      Body(Some(UrlNoProtocol), Some(Num(0)), Some(CodeAbc)),
      Body(Some(Url1), Some(Num(0)), Some(CodeAbc)),
      Body(Some(Url1), Some(Num(-1)), Undefined),
      Body(Some(Url1), Some(NumAndHalf(1)), Undefined),
      Body(Some(Url1), Undefined, Some(CodeAb)),
      Body(Some(Url1), Undefined, Some(CodeDash)),
      Body(Some(Url1), Undefined, Some(CodeLong)),
      Body(Some(Url1), Some(Num(1)), Some(CodeEmpty)),
      Body(Some(Url1), Some(Num(1)), Some(CodeAbc)),
      Body(Some(Url2), Some(Num(1)), Some(CodeAbc)),
      Body(Some(Url2), Undefined, Some(CodeGen1)),
      Body(Some(Url1), Some(HugeValidity), Some(CodeAbc)),
      Body(Some(Url1), Some(Num(1)), Undefined),
      Body(Some(Url2), Undefined, Undefined) }

InitWith(n) ==
    /\ urlDatabase = << >>
    /\ now = 0
    /\ nextId = 1
    /\ req = [r \in 1..n |-> Idle]
    /\ response = NoResponse
    /\ logResult = "none"
    /\ redirectsSent = << >>

Init == InitWith(NumReqs)

Next ==
    \/ \E r \in Reqs : PostArrive(r)
    \/ \E r \in Reqs : PostValidate(r, AllocBodies, {0})
    \/ \E r \in Reqs : PostRetry(r, {0})
    \/ \E r \in Reqs : PostRespond(r)

Spec == Init /\ [][Next]_vars

----------------------------------------------------------------------------
(* Clicks and expiry: one custom code, redirects, the clock running        *)

ClickBodies ==
    { Body(Some(Url1), Some(Num(1)), Some(CodeAbc)),
      Body(Some(Url2), Some(Num(1)), Some(CodeAbc)),
      Body(Some(Url1), Some(HugeValidity), Some(CodeAbc)) }

ClickParams == {CodeAb, CodeAbc}

NextClicks ==
    \/ \E r \in Reqs : PostArrive(r)
    \/ \E r \in Reqs : PostValidate(r, ClickBodies, {0, 1})
    \/ \E r \in Reqs : PostRespond(r)
    \/ \E r \in Reqs : RedirectArrive(r, ClickParams, {0, 1}, MaxClicks)
    \/ \E r \in Reqs : RedirectRespond(r)
    \/ Tick(MaxClock)

SpecClicks == Init /\ [][NextClicks]_vars

----------------------------------------------------------------------------
(* Statistics: one alias, redirects and statistics requests                *)

StatsBodies == { Body(Some(Url1), Some(Num(1)), Some(CodeAbc)) }

StatsParams == {CodeAb, CodeAbc}

NextStats ==
    \/ \E r \in Reqs : PostArrive(r)
    \/ \E r \in Reqs : PostValidate(r, StatsBodies, {0})
    \/ \E r \in Reqs : PostRespond(r)
    \/ \E r \in Reqs : RedirectArrive(r, {CodeAbc}, {0}, MaxClicks)
    \/ \E r \in Reqs : RedirectRespond(r)
    \/ \E r \in Reqs : StatsArrive(r, StatsParams)
    \/ \E r \in Reqs : StatsLookup(r)
    \/ \E r \in Reqs : StatsRespond(r)
    \/ Tick(MaxClock)

SpecStats == Init /\ [][NextStats]_vars

----------------------------------------------------------------------------
(* Vocabulary of the properties *)

\* the url and the validity of a body pass the checks of lines 93-122
ValidUrlAndValidity(body) ==
    /\ ~IsFalsyUrl(body.url)
    /\ isURL(Val(body.url))
    /\ body.validity # Undefined =>
         NumberIsInteger(Val(body.validity)) /\ ~LeqZero(Val(body.validity))

\* the body names a custom code of valid format
HasCustomCode(body) ==
    body.shortcode # Undefined /\ isValidShortcode(Val(body.shortcode))

\* a Date can hold the expiry the body asks for
ExpiryRepresentable(body) ==
    body.validity # Undefined => ~Val(body.validity).e12

\* in a step: creation r runs lines 90-175
Validates(r) == req[r].pc = "L88" /\ req'[r].pc # "L88"

\* in a step that resumes creation r: the body it read
BodyRead(r) == IF req'[r] = Idle THEN response'.request ELSE req'[r].body

\* in a step: creation r inserts its entry
Inserts(r) == req[r].pc \in {"L88", "L148"} /\ req'[r].pc = "L175"

\* the entry creation r inserted is the one stored under its shortcode
HoldsItsEntry(r) ==
    /\ req[r].finalShortcode \in DOMAIN urlDatabase
    /\ urlDatabase[req[r].finalShortcode].id = req[r].id
    /\ urlDatabase[req[r].finalShortcode].originalUrl = Val(req[r].body.url)

----------------------------------------------------------------------------
(* Properties of shortcode allocation *)

\* C1: shortcode allocation is race-free.  In every step: a stored entry is
\* never replaced; a creation inserts only under a shortcode that is not a
\* key, custom or generated; while a creation waits for its last Log call
\* and when it answers 201, the entry stored under its shortcode is the one
\* it inserted; and a creation with a custom code (valid url and validity)
\* that finds the code stored answers 409 and leaves the database alone,
\* while one that finds it free inserts and goes on to answer 201.  So of
\* two requests for one custom code the first to run inserts and the other
\* gets 409, in either order.
C1_RaceFreeAllocation ==
    [][ /\ \A c \in DOMAIN urlDatabase :
             /\ c \in DOMAIN urlDatabase'
             /\ urlDatabase'[c].id = urlDatabase[c].id
             /\ urlDatabase'[c].originalUrl = urlDatabase[c].originalUrl
        /\ \A r \in Reqs :
             /\ Inserts(r) => req'[r].finalShortcode \notin DOMAIN urlDatabase
             /\ req'[r].pc = "L175" => HoldsItsEntry(r)'
             /\ req[r].pc = "L175" /\ req'[r] = Idle =>
                  /\ response'.status = 201
                  /\ response'.shortLink.path = req[r].finalShortcode
                  /\ HoldsItsEntry(r)
             /\ ( /\ Validates(r)
                  /\ ValidUrlAndValidity(BodyRead(r))
                  /\ HasCustomCode(BodyRead(r))
                  /\ ExpiryRepresentable(BodyRead(r)) ) =>
                  IF Val(BodyRead(r).shortcode) \in DOMAIN urlDatabase
                    THEN /\ response'.status = 409
                         /\ urlDatabase' = urlDatabase
                    ELSE /\ req'[r].pc = "L175"
                         /\ req'[r].finalShortcode = Val(BodyRead(r).shortcode)
                         /\ req'[r].id = nextId
      ]_vars

\* C1 witness: a request for a custom code has just been refused with 409
\* while the request that won the code, with another url, still waits for
\* its Log call, its entry stored; and the same for a custom code that a
\* random allocation won
C1_Witness_LoserRefused ==
    \E r \in Reqs :
        /\ req[r].pc = "L175"
        /\ response.kind = "create"
        /\ response.status = 409
        /\ response.request.shortcode = Some(req[r].finalShortcode)
        /\ response.request.url # req[r].body.url
        /\ HoldsItsEntry(r)

----------------------------------------------------------------------------
(* Properties of click accounting *)

\* the redirect requests for a shortcode that wait for their Log call
RedirectsInFlight(c) ==
    {r \in Reqs : req[r].kind = "redirect" /\ req[r].pc = "L298"
                  /\ req[r].shortcode = c}

\* C2: no click is lost or counted twice.  In every state, for every alias,
\* clickCount and the number of click events both equal the number of 302
\* responses sent for it plus the number of its redirects still waiting for
\* their Log call; so once K resolutions have completed and none is in
\* flight, clickCount = K = Len(clicks), however they interleaved.
C2_ClickAccounting ==
    /\ DOMAIN redirectsSent \subseteq DOMAIN urlDatabase
    /\ \A c \in DOMAIN urlDatabase :
         /\ urlDatabase[c].clickCount
              = Sent(c) + Cardinality(RedirectsInFlight(c))
         /\ Len(urlDatabase[c].clicks)
              = Sent(c) + Cardinality(RedirectsInFlight(c))

\* C2 witness: two resolutions of one alias overlapped; the first has just
\* been answered with 302 while the second still waits, and both are counted
C2_Witness_OverlappingClicks ==
    \E c \in DOMAIN urlDatabase :
        /\ response.kind = "redirect"
        /\ response.status = 302
        /\ response.request = c
        /\ Sent(c) = 1
        /\ Cardinality(RedirectsInFlight(c)) = 1
        /\ urlDatabase[c].clickCount = 2
        /\ Len(urlDatabase[c].clicks) = 2

----------------------------------------------------------------------------
(* Properties of the round trip *)

\* C3: round trip.  In every step: a creation with a valid url, a valid
\* validity and a custom code of valid format that is not stored succeeds
\* (it inserts the entry with that url and goes on to answer 201); and a
\* redirect request for a stored shortcode arriving not after its expiry is
\* let through, and every 302 sent for a shortcode carries the url stored
\* at its creation.
C3_RoundTrip ==
    [][ \A r \in Reqs :
          /\ ( /\ Validates(r)
               /\ ValidUrlAndValidity(BodyRead(r))
               /\ HasCustomCode(BodyRead(r))
               /\ Val(BodyRead(r).shortcode) \notin DOMAIN urlDatabase ) =>
               /\ req'[r].pc = "L175"
               /\ req'[r].finalShortcode = Val(BodyRead(r).shortcode)
               /\ urlDatabase'[Val(BodyRead(r).shortcode)].originalUrl
                    = Val(BodyRead(r).url)
          /\ ( /\ response'.kind = "redirect"
               /\ response'.status # 302
               /\ response'.request \in DOMAIN urlDatabase ) =>
               now > urlDatabase[response'.request].expiry
          /\ ( /\ req[r].pc = "L298"
               /\ req'[r] = Idle ) =>
               /\ response'.status = 302
               /\ response'.location = urlDatabase[req[r].shortcode].originalUrl
      ]_vars

----------------------------------------------------------------------------
(* Properties of expiry *)

\* C4: expiry is enforced with a strict comparison.  In every reachable
\* state and for every stored shortcode, a redirect request arriving now is
\* refused with 410, recording nothing, exactly when now > expiry; at any
\* now <= expiry, now = expiry included, it records its click and goes on to
\* redirect.  Every alias here is created with validity 1: it resolves at
\* the instant of its creation and is refused once more than a minute has
\* passed since.
C4_StrictExpiry ==
    \A c \in DOMAIN urlDatabase, d \in {0, 1} :
        LET urlEntry == urlDatabase[c]
            out == RedirectSync(c, urlDatabase, now, d, nextId)
            refused == out.res = Some(ErrorResponse("redirect", c, 410,
                                                    "Short URL expired"))
        IN  /\ refused <=> now > urlEntry.expiry
            /\ refused => out.db = urlDatabase /\ out.req = Idle
            /\ ~refused =>
                 /\ out.res = Undefined
                 /\ out.req.pc = "L298"
                 /\ out.db[c].clickCount = urlEntry.clickCount + 1
            /\ now = urlEntry.createdAt => ~refused
            /\ now > urlEntry.createdAt + TicksPerMinute => refused

\* C4 witness: an alias was resolved at the very instant of its expiry (the
\* click is stamped with it) and, one tick later, a redirect request for it
\* has just been refused with 410
C4_Witness_BoundaryThenRefused ==
    \E c \in DOMAIN urlDatabase :
        /\ response.kind = "redirect"
        /\ response.status = 410
        /\ response.request = c
        /\ now = urlDatabase[c].expiry + 1
        /\ \E i \in 1..Len(urlDatabase[c].clicks) :
             urlDatabase[c].clicks[i].timestamp = urlDatabase[c].expiry

----------------------------------------------------------------------------
(* Reuse of shortcodes: custom and generated codes, the clock running      *)

ReuseBodies ==
    { Body(Some(Url1), Some(Num(1)), Some(CodeAbc)),
      Body(Some(Url2), Some(Num(1)), Some(CodeGen1)),
      Body(Some(Url2), Some(Num(1)), Undefined) }

NextReuse ==
    \/ \E r \in Reqs : PostArrive(r)
    \/ \E r \in Reqs : PostValidate(r, ReuseBodies, {0})
    \/ \E r \in Reqs : PostRetry(r, {0})
    \/ \E r \in Reqs : PostRespond(r)
    \/ Tick(MaxClock)

SpecReuse == Init /\ [][NextReuse]_vars

\* C5: a shortcode is never reused.  In every step: every stored entry
\* stays stored, unchanged; a creation with a custom code (valid url and
\* validity) that is a key of the database answers 409 and changes nothing,
\* whether the stored entry has expired or not; and a creation inserts,
\* under a custom or a generated code, only where no entry is stored.
C5_NoReuse ==
    [][ /\ \A c \in DOMAIN urlDatabase :
             c \in DOMAIN urlDatabase' /\ urlDatabase'[c] = urlDatabase[c]
        /\ \A r \in Reqs :
             /\ ( /\ Validates(r)
                  /\ ValidUrlAndValidity(BodyRead(r))
                  /\ HasCustomCode(BodyRead(r))
                  /\ Val(BodyRead(r).shortcode) \in DOMAIN urlDatabase ) =>
                  /\ response' = ErrorResponse("create", BodyRead(r), 409,
                                               "Shortcode already exists")
                  /\ urlDatabase' = urlDatabase
             /\ Inserts(r) =>
                  /\ req'[r].finalShortcode \notin DOMAIN urlDatabase
                  /\ DOMAIN urlDatabase'
                       = DOMAIN urlDatabase \cup {req'[r].finalShortcode}
                  /\ req'[r].body.shortcode = Undefined =>
                       req'[r].finalShortcode \in GenCodes
      ]_vars

\* C5 witness: a creation with the custom code of an entry that has expired
\* has just been refused with 409, and a generated code is stored beside it
C5_Witness_ExpiredCodeRefused ==
    \E c \in DOMAIN urlDatabase :
        /\ response.kind = "create"
        /\ response.status = 409
        /\ response.request.shortcode = Some(c)
        /\ isExpired(urlDatabase[c].expiry, now)
        /\ \E g \in GenCodes \ {c} : g \in DOMAIN urlDatabase

----------------------------------------------------------------------------
(* Properties of failed creations *)

\* C6: a failed creation has no effect on the database.  In every step in
\* which a creation runs its validation: a missing url (undefined or empty)
\* leads to 400 "URL is required", an invalid url to 400 "Invalid URL
\* format", and with a valid url a validity that is not a positive integer
\* (0, -1, 1.5) to 400 "Invalid validity period", then a custom code of
\* invalid format (2 characters, a dash, 21 characters) to 400 "Invalid
\* shortcode format", then a stored custom code to 409; and every step of a
\* creation that ends in 400 or 409, the sending of the response included,
\* leaves the database exactly as it was.
C6_FailedCreateNoEffect ==
    [][ \A r \in Reqs :
          /\ Validates(r) =>
               LET body == BodyRead(r)
                   failed == \/ req'[r].pc \in {"L95", "L105"}
                             \/ /\ response'.kind = "create"
                                /\ response'.status \in {400, 409}
               IN  /\ failed => urlDatabase' = urlDatabase
                   /\ IsFalsyUrl(body.url) => req'[r].pc = "L95"
                   /\ ~IsFalsyUrl(body.url) /\ ~isURL(Val(body.url)) =>
                        req'[r].pc = "L105"
                   /\ ( /\ ~IsFalsyUrl(body.url) /\ isURL(Val(body.url))
                        /\ body.validity \in {Some(Num(0)), Some(Num(-1)),
                                              Some(NumAndHalf(1))} ) =>
                        response' = ErrorResponse("create", body, 400,
                                                  "Invalid validity period")
                   /\ ( /\ ValidUrlAndValidity(body)
                        /\ body.shortcode \in {Some(CodeAb), Some(CodeDash),
                                               Some(CodeLong)} ) =>
                        response' = ErrorResponse("create", body, 400,
                                                  "Invalid shortcode format")
                   /\ ( /\ ValidUrlAndValidity(body)
                        /\ HasCustomCode(body)
                        /\ Val(body.shortcode) \in DOMAIN urlDatabase ) =>
                        response' = ErrorResponse("create", body, 409,
                                                  "Shortcode already exists")
          /\ req[r].pc \in {"L95", "L105"} /\ req'[r] = Idle =>
               /\ response'.status = 400
               /\ response'.error = IF req[r].pc = "L95"
                                      THEN "URL is required"
                                      ELSE "Invalid URL format"
               /\ urlDatabase' = urlDatabase
      ]_vars

\* C6 witness: with an entry stored, a creation with validity 0 has just
\* been refused with 400
C6_Witness_ValidityZeroRefused ==
    /\ response.kind = "create"
    /\ response.status = 400
    /\ response.error = "Invalid validity period"
    /\ response.request.validity = Some(Num(0))
    /\ response.request.shortcode = Some(CodeAbc)
    /\ CodeAbc \in DOMAIN urlDatabase


\* C7: custom-code format validation.  In every step in which a creation
\* runs its validation on a body with a valid url and validity: a supplied
\* shortcode of whatever length, the empty string included, that does not
\* match ^[a-zA-Z0-9]{3,20}$ is refused with 400 "Invalid shortcode format"
\* and nothing is stored; and a code is generated (the request reaches the
\* insertion with a code that is not its body's) only when the body has no
\* shortcode.  The code does not satisfy this: `if (shortcode)` at line 126
\* is false for the empty string, so the body {url, validity: 1,
\* shortcode: ""} takes the generation path and is answered 201.
C7_FormatValidation ==
    [][ \A r \in Reqs :
          Validates(r) /\ ValidUrlAndValidity(BodyRead(r)) =>
            LET body == BodyRead(r)
            IN  /\ ( /\ body.shortcode # Undefined
                     /\ ~isValidShortcode(Val(body.shortcode)) ) =>
                       /\ response' = ErrorResponse("create", body, 400,
                                                    "Invalid shortcode format")
                       /\ urlDatabase' = urlDatabase
                /\ ( /\ req'[r].pc \in {"L148", "L175"}
                     /\ body.shortcode # Undefined ) =>
                       /\ req'[r].pc = "L175"
                       /\ req'[r].finalShortcode = Val(body.shortcode)
      ]_vars

----------------------------------------------------------------------------
(* Properties of the statistics endpoint and of logging *)

\* the steps of a statistics request in slot r: its arrival, its lookup and
\* the sending of its response
StatsStep(r) ==
    /\ req'[r] # req[r]
    /\ req[r].kind = "stats" \/ req'[r].kind = "stats"

\* C8: getStatistics is read-only.  Every step of a statistics request,
\* whatever it answers (200, 400, 404), leaves the database, every field
\* of every record and the set of stored shortcodes, unchanged; the
\* totalClicks and clickDetails it returns are those of the record at its
\* lookup; and the clickCount or clicks of a stored record change only in
\* the step in which a redirect request for that shortcode records its
\* click.  Hence statistics calls with no successful resolve in between
\* return identical totalClicks and clickDetails.
C8_StatsReadOnly ==
    [][ /\ \A r \in Reqs : StatsStep(r) => urlDatabase' = urlDatabase
        /\ \A r \in Reqs :
             StatsStep(r) /\ req'[r].pc = "L236" =>
               LET urlEntry == urlDatabase[req[r].shortcode]
                   statistics == req'[r].statistics
               IN  /\ statistics.totalClicks = urlEntry.clickCount
                   /\ Len(statistics.clickDetails) = Len(urlEntry.clicks)
                   /\ \A i \in 1..Len(urlEntry.clicks) :
                        statistics.clickDetails[i].timestamp =
                          urlEntry.clicks[i].timestamp
        /\ \A r \in Reqs :
             StatsStep(r) /\ req[r].pc = "L236" =>
               /\ response'.status = 200
               /\ response'.statistics = req[r].statistics
        /\ \A c \in DOMAIN urlDatabase :
             ( \/ c \notin DOMAIN urlDatabase'
               \/ urlDatabase'[c].clickCount # urlDatabase[c].clickCount
               \/ urlDatabase'[c].clicks # urlDatabase[c].clicks ) =>
               \E r \in Reqs : /\ req[r] = Idle
                               /\ req'[r].kind = "redirect"
                               /\ req'[r].pc = "L298"
                               /\ req'[r].shortcode = c
      ]_vars

\* C8 witness: after one click, a statistics response and a second
\* statistics request, looked up and not yet answered, carry the same
\* totals, and the record still has its one click
C8_Witness_TwoCallsSameTotals ==
    /\ response.kind = "stats"
    /\ response.status = 200
    /\ response.statistics.totalClicks = 1
    /\ \E r \in Reqs : /\ req[r].kind = "stats"
                       /\ req[r].pc = "L236"
                       /\ req[r].shortcode = response.request
                       /\ req[r].statistics = response.statistics
    /\ urlDatabase[response.request].clickCount = 1
    /\ Len(urlDatabase[response.request].clicks) = 1

\* C9: statistics ignore expiry.  For every stored shortcode, at every
\* clock value, past the expiry included, the lookup of a statistics
\* request finds the record and takes its totalClicks, originalUrl,
\* createdAt, expiry and all its clicks, and the response is 200 with
\* those.
C9_StatsIgnoreExpiry ==
    [][ \A r \in Reqs :
          /\ ( /\ StatsStep(r)
               /\ req[r].pc = "L201"
               /\ req[r].shortcode \in DOMAIN urlDatabase ) =>
               LET urlEntry == urlDatabase[req[r].shortcode]
               IN  /\ req'[r].pc = "L236"
                   /\ req'[r].statistics.totalClicks = urlEntry.clickCount
                   /\ req'[r].statistics.originalUrl = urlEntry.originalUrl
                   /\ req'[r].statistics.creationDate = urlEntry.createdAt
                   /\ req'[r].statistics.expiryDate = urlEntry.expiry
                   /\ Len(req'[r].statistics.clickDetails) = urlEntry.clickCount
                   /\ \A i \in 1..Len(urlEntry.clicks) :
                        /\ req'[r].statistics.clickDetails[i].timestamp =
                             urlEntry.clicks[i].timestamp
                        /\ req'[r].statistics.clickDetails[i].location =
                             urlEntry.clicks[i].location
          /\ StatsStep(r) /\ req[r].pc = "L236" =>
               response' = [kind |-> "stats", request |-> req[r].shortcode,
                            status |-> 200,
                            statistics |-> req[r].statistics]
      ]_vars

\* C9 witness: statistics with a click in them have just been answered 200
\* at a clock value past the expiry, at which a redirect of the same
\* shortcode is refused with 410
C9_Witness_StatsAfterExpiry ==
    /\ response.kind = "stats"
    /\ response.status = 200
    /\ response.statistics.totalClicks >= 1
    /\ now > response.statistics.expiryDate
    /\ response.statistics.expiryDate = urlDatabase[response.request].expiry
    /\ RedirectSync(response.request, urlDatabase, now, 0, nextId).res =
         Some(ErrorResponse("redirect", response.request, 410,
                            "Short URL expired"))

\* what the request in slot r does when its pending Log call settles with
\* `log`: the segment after the await it is suspended at
Continuation(r, log) ==
    IF req[r].kind = "create"
      THEN IF req[r].pc = "L88"
             THEN {PostAfterLog(body, log, urlDatabase, now, d, g, nextId) :
                     body \in AllocBodies, d \in {0, 1}, g \in GenCodes}
             ELSE {PostResponse(req[r], log)}
    ELSE IF req[r].kind = "stats"
      THEN IF req[r].pc = "L201"
             THEN {StatsAfterLog(req[r], log, urlDatabase, now, nextId)}
             ELSE {StatsResponse(req[r], log)}
    ELSE {RedirectResponse(req[r], log, urlDatabase)}

\* C10: log sink failures are swallowed.  Whatever the sink does (answers,
\* network error, timeout, non-2xx), Log settles with a value, the
\* response data or null, and does not throw; and for every request
\* suspended at a Log call, creation, redirect or statistics, what it
\* does next, its response and the database it leaves, is the same for
\* every sink outcome; a response sent after a failed Log call is no 500.
C10_LogFailuresSwallowed ==
    /\ \A sink \in SinkOutcomes :
         /\ ~LoggerLog(sink).threw
         /\ LoggerLog(sink).value = IF sink = "ok" THEN "data" ELSE "null"
    /\ \A r \in Reqs :
         req[r] # Idle /\ req[r].pc # "L148" =>
           \A s1, s2 \in SinkOutcomes :
             Continuation(r, LoggerLog(s1)) = Continuation(r, LoggerLog(s2))
    /\ logResult = "null" /\ response # NoResponse => response.status # 500

\* C10 witness: the Log call of line 175 failed and the creation was
\* answered 201, its entry stored
C10_Witness_CreatedDespiteLogFailure ==
    /\ logResult = "null"
    /\ response.kind = "create"
    /\ response.status = 201
    /\ response.request.shortcode # Undefined
    /\ Val(response.request.shortcode) \in DOMAIN urlDatabase

----------------------------------------------------------------------------
(* Properties of the request path *)

\* the request in slot r has made a Log call, is waiting for it to settle,
\* and has not sent its response
AwaitsLog(r) ==
    req[r].pc \in {"L88", "L95", "L105", "L175", "L201", "L205", "L215",
                   "L236", "L242", "L298", "L307"}

\* C11: the log call is fire-and-forget.  The handlers do not wait for a
\* Log call to settle before they go on to their response: in no reachable
\* state is a creation, redirect or statistics request held at a Log call
\* it made, its response unsent.  The code does not satisfy this: every Log
\* call of the handlers is awaited (lines 88, 95, 105, 175, 201, 205, 215,
\* 236, 242, 298, 307), so each request stays suspended until the sink has answered,
\* failed or timed out, and only then is its response sent.
C11_FireAndForget ==
    \A r \in Reqs : ~AwaitsLog(r)

----------------------------------------------------------------------------
(* Termination of the random allocation *)

\* a turn of the do-while loop in which generateShortCode returns a code
\* that is not stored, so that the loop is left
PostRetryInserts(r) ==
    /\ PostRetry(r, {0})
    /\ req'[r].pc = "L175"

\* The loop of lines 146-148 is synchronous: once entered it keeps turning
\* (weak fairness), and Math.random does not avoid a free code for ever
\* (strong fairness on the turn that draws one).
FairSpecReuse ==
    /\ SpecReuse
    /\ \A r \in 1..NumReqs : /\ WF_vars(PostRetry(r, {0}))
                             /\ SF_vars(PostRetryInserts(r))

\* C12: random allocation terminates.  A creation without custom code that
\* is in the generate-and-check loop eventually leaves it, by inserting
\* its record under a code that was not stored or by giving up with a 500,
\* also when every code the generator produces is stored.  The code does
\* not satisfy this: the do-while of lines 146-148 has no retry cap, so
\* with every generated code stored it turns for ever.
C12_AllocationTerminates ==
    \A r \in 1..NumReqs :
      (req[r].pc = "L148") ~>
        ( \/ req[r].pc = "L175"
          \/ response.kind = "create" /\ response.status = 500 )

----------------------------------------------------------------------------
(* Properties of the stored records *)

\* C13: in every reachable state, handlers suspended at a Log call or not,
\* every stored record has clickCount = Len(clicks), and every statistics
\* taken or answered have totalClicks equal to the number of their
\* clickDetails.
C13_CountEqualsLength ==
    /\ \A c \in DOMAIN urlDatabase :
         urlDatabase[c].clickCount = Len(urlDatabase[c].clicks)
    /\ \A r \in Reqs :
         req[r].kind = "stats" /\ req[r].pc = "L236" =>
           req[r].statistics.totalClicks = Len(req[r].statistics.clickDetails)
    /\ response.kind = "stats" /\ response.status = 200 =>
         response.statistics.totalClicks = Len(response.statistics.clickDetails)

\* C13 witness: statistics with two clicks are answered while the redirect
\* request that recorded the second is still suspended at line 298
C13_Witness_StatsWhileRedirectSuspended ==
    /\ response.kind = "stats"
    /\ response.status = 200
    /\ response.statistics.totalClicks = 2
    /\ Len(response.statistics.clickDetails) = 2
    /\ \E r \in Reqs : /\ req[r].kind = "redirect"
                       /\ req[r].pc = "L298"
                       /\ req[r].shortcode = response.request

----------------------------------------------------------------------------
(* Properties of the validation of a creation *)

\* the validity of the body is given and is not a positive integer
InvalidValidity(body) ==
    /\ body.validity # Undefined
    /\ \/ ~NumberIsInteger(Val(body.validity))
       \/ LeqZero(Val(body.validity))

\* the custom code of the body is stored
CodeTaken(body) ==
    IsTruthyCode(body.shortcode) /\ Val(body.shortcode) \in DOMAIN urlDatabase

\* the custom code of the body is of invalid format
CodeMalformed(body) ==
    IsTruthyCode(body.shortcode) /\ ~isValidShortcode(Val(body.shortcode))

\* C14: the validation order.  In every step in which a creation runs its
\* validation, whatever else is wrong with the body: a missing url is
\* reported as "URL is required"; otherwise an invalid url as "Invalid URL
\* format", also with validity 0 and a stored custom code; otherwise an
\* invalid validity as "Invalid validity period", also with a malformed
\* or stored custom code, and never as a conflict; otherwise a malformed
\* custom code as "Invalid shortcode format"; otherwise a stored custom
\* code as 409 "Shortcode already exists"; and a body that breaks no rule
\* is answered with none of these errors.
C14_ValidationOrder ==
    [][ \A r \in Reqs :
          /\ Validates(r) =>
               LET body == BodyRead(r)
                   urlMissing == IsFalsyUrl(body.url)
                   urlInvalid == ~urlMissing /\ ~isURL(Val(body.url))
                   urlOk == ~urlMissing /\ ~urlInvalid
                   refused(status, error) ==
                     response' = ErrorResponse("create", body, status, error)
               IN  /\ urlMissing => req'[r].pc = "L95"
                   /\ urlInvalid => req'[r].pc = "L105"
                   /\ urlOk /\ InvalidValidity(body) =>
                        refused(400, "Invalid validity period")
                   /\ urlOk /\ ~InvalidValidity(body) /\ CodeMalformed(body) =>
                        refused(400, "Invalid shortcode format")
                   /\ ( /\ urlOk /\ ~InvalidValidity(body)
                        /\ ~CodeMalformed(body) /\ CodeTaken(body) ) =>
                        refused(409, "Shortcode already exists")
                   /\ ( /\ urlOk /\ ~InvalidValidity(body)
                        /\ ~CodeMalformed(body) /\ ~CodeTaken(body) ) =>
                        /\ req'[r].pc \in {"idle", "L148", "L175"}
                        /\ response'.status \notin {400, 409}
          /\ req[r].pc = "L95" /\ req'[r] = Idle =>
               response' = ErrorResponse("create", req[r].body, 400,
                                         "URL is required")
          /\ req[r].pc = "L105" /\ req'[r] = Idle =>
               response' = ErrorResponse("create", req[r].body, 400,
                                         "Invalid URL format")
      ]_vars

\* C14 witness: a body with an invalid url, validity 0 and a stored custom
\* code has just been answered "Invalid URL format"
C14_Witness_InvalidUrlReportedFirst ==
    /\ response = ErrorResponse("create",
                                Body(Some(UrlNoProtocol), Some(Num(0)),
                                     Some(CodeAbc)),
                                400, "Invalid URL format")
    /\ CodeAbc \in DOMAIN urlDatabase

----------------------------------------------------------------------------
(* Properties of failed resolutions *)

\* C15: a failed resolution changes nothing.  In every step that answers a
\* redirect request with an error: the answer is 400 exactly for a
\* shortcode of invalid format, 404 exactly for a well-formed shortcode
\* with no record, and 410 exactly for a record whose expiry has passed;
\* and the database is left as it was, no record created, deleted or
\* modified, the expired record still stored with its originalUrl.  A
\* redirect request is let through to line 298 only for a stored,
\* unexpired shortcode of valid format.
C15_FailedResolveNoEffect ==
    [][ /\ ( /\ response'.kind = "redirect"
             /\ response'.status \in {400, 404, 410} ) =>
             LET c == response'.request
             IN  /\ urlDatabase' = urlDatabase
                 /\ response'.status = 400 <=> ~isValidShortcode(c)
                 /\ response'.status = 404 <=>
                      isValidShortcode(c) /\ c \notin DOMAIN urlDatabase
                 /\ response'.status = 410 <=>
                      /\ c \in DOMAIN urlDatabase
                      /\ now > urlDatabase[c].expiry
                 /\ response'.status = 410 =>
                      /\ c \in DOMAIN urlDatabase'
                      /\ urlDatabase'[c].originalUrl = urlDatabase[c].originalUrl
                      /\ urlDatabase'[c].clickCount = urlDatabase[c].clickCount
                      /\ urlDatabase'[c].clicks = urlDatabase[c].clicks
        /\ \A r \in Reqs :
             req[r] = Idle /\ req'[r].kind = "redirect" =>
               /\ isValidShortcode(req'[r].shortcode)
               /\ req'[r].shortcode \in DOMAIN urlDatabase
               /\ now <= urlDatabase[req'[r].shortcode].expiry
      ]_vars

\* C15 witness: a redirect of an expired alias that was clicked before its
\* expiry has just been refused with 410, the record and its click kept
C15_Witness_ExpiredRefusedRecordKept ==
    /\ response = ErrorResponse("redirect", CodeAbc, 410, "Short URL expired")
    /\ CodeAbc \in DOMAIN urlDatabase
    /\ urlDatabase[CodeAbc].clickCount >= 1
    /\ now > urlDatabase[CodeAbc].expiry
    /\ urlDatabase[CodeAbc].originalUrl \in {Url1, Url2}

----------------------------------------------------------------------------
(* Properties of the life of a record *)

\* C16: records are created once and only grow in analytics.  In every
\* step, whatever request takes it: every stored shortcode stays stored
\* and keeps its id, originalUrl, shortcode, createdAt and expiry; its
\* record either is unchanged or has clickCount one higher and one click
\* appended after the earlier ones, which are unchanged, and this only in
\* the step in which a redirect request for it is let through; and a
\* shortcode enters the database only in the step of a creation that
\* inserts it, with no clicks.
C16_RecordsOnlyGrow ==
    [][ /\ \A c \in DOMAIN urlDatabase :
             /\ c \in DOMAIN urlDatabase'
             /\ urlDatabase'[c].id = urlDatabase[c].id
             /\ urlDatabase'[c].originalUrl = urlDatabase[c].originalUrl
             /\ urlDatabase'[c].shortcode = urlDatabase[c].shortcode
             /\ urlDatabase'[c].createdAt = urlDatabase[c].createdAt
             /\ urlDatabase'[c].expiry = urlDatabase[c].expiry
             /\ \/ urlDatabase'[c] = urlDatabase[c]
                \/ /\ urlDatabase'[c].clickCount = urlDatabase[c].clickCount + 1
                   /\ Len(urlDatabase'[c].clicks) = Len(urlDatabase[c].clicks) + 1
                   /\ SubSeq(urlDatabase'[c].clicks, 1, Len(urlDatabase[c].clicks))
                        = urlDatabase[c].clicks
                   /\ \E r \in Reqs : /\ req[r] = Idle
                                      /\ req'[r].kind = "redirect"
                                      /\ req'[r].pc = "L298"
                                      /\ req'[r].shortcode = c
        /\ \A c \in DOMAIN urlDatabase' \ DOMAIN urlDatabase :
             /\ urlDatabase'[c].clickCount = 0
             /\ urlDatabase'[c].clicks = << >>
             /\ \E r \in Reqs : /\ Inserts(r)
                                /\ req'[r].finalShortcode = c
      ]_vars

\* C16 witness: a record created at clock 0 holds two clicks taken at
\* different clock values, in that order, and has since expired
C16_Witness_TwoClicksThenExpired ==
    /\ CodeAbc \in DOMAIN urlDatabase
    /\ urlDatabase[CodeAbc].clickCount = 2
    /\ urlDatabase[CodeAbc].clicks[1].timestamp
         < urlDatabase[CodeAbc].clicks[2].timestamp
    /\ now > urlDatabase[CodeAbc].expiry

----------------------------------------------------------------------------
(* Creations under a clock that moves between the two reads of a creation: *)
(* calculateExpiry reads it at line 41, createdAt at line 160.  The clock   *)
(* moves in these drifts only.                                              *)

DriftBodies ==
    { Body(Some(Url1), Some(Num(1)), Some(CodeAbc)),
      Body(Some(Url2), Undefined, Some(CodeGen1)),
      Body(Some(Url1), Some(Num(2)), Some(CodeGen2)) }

\* by how many ticks the clock moves between the two reads
Drifts == {0, 1, 2}

NextDrift ==
    \/ \E r \in Reqs : PostArrive(r)
    \/ \E r \in Reqs : PostValidate(r, DriftBodies, Drifts)
    \/ \E r \in Reqs : PostRespond(r)

SpecDrift == InitWith(NumReqs) /\ [][NextDrift]_vars

\* C17: every stored record has its expiry strictly after its createdAt,
\* for every accepted validity and however far the clock moves between the
\* read that computes the expiry and the read of createdAt.  The code does
\* not satisfy this: the two are separate reads of the clock (lines 41 and
\* 160), and when the clock moves by the validity or more between them,
\* one minute for validity 1, createdAt is at or after the expiry.
C17_ExpiryAfterCreation ==
    \A c \in DOMAIN urlDatabase :
      urlDatabase[c].expiry > urlDatabase[c].createdAt

\* the validity a creation with this body runs with: lines 113-122
MinutesOf(body) ==
    IF body.validity # Undefined THEN Val(body.validity).n ELSE 30

\* C18: the expiry computation.  In every step in which a creation inserts
\* its record, the expiry stored is the clock value read when the expiry
\* is computed plus the validity of the body in minutes, 30 when the body
\* has none; and the 201 response carries the expiry stored in the record.
C18_ExpiryComputation ==
    [][ \A r \in Reqs :
          /\ Inserts(r) =>
               LET c == req'[r].finalShortcode
               IN  /\ c \in DOMAIN urlDatabase'
                   /\ urlDatabase'[c].expiry =
                        now + MinutesOf(req'[r].body) * TicksPerMinute
          /\ req[r].pc = "L175" /\ req'[r] = Idle =>
               /\ response'.status = 201
               /\ response'.expiry = urlDatabase[req[r].finalShortcode].expiry
               /\ response'.expiry = urlDatabase'[req[r].finalShortcode].expiry
      ]_vars

\* C18 witness: a creation without validity, run after the clock had moved,
\* has just been answered 201 with the expiry of its record, 30 minutes
\* after the clock value it read
C18_Witness_DefaultValidity ==
    /\ response.kind = "create"
    /\ response.status = 201
    /\ response.request.validity = Undefined
    /\ response.expiry = urlDatabase[CodeGen1].expiry
    /\ response.expiry > 30 * TicksPerMinute
    /\ urlDatabase[CodeGen1].createdAt > 0

----------------------------------------------------------------------------
(* Properties of the keys *)

\* ^[a-zA-Z0-9]{3,20}$
MatchesPattern(code) ==
    /\ Len(code) >= 3
    /\ Len(code) <= 20
    /\ \A i \in 1..Len(code) :
         code[i] \in LowerChars \cup UpperChars \cup DigitChars

\* C19: in every reachable state every key of the database matches
\* ^[a-zA-Z0-9]{3,20}$ and is the shortcode of the record stored under it,
\* for custom and for generated codes; so for no stored shortcode does a
\* redirect request or a statistics request fail on the format check.
C19_KeysWellFormed ==
    \A c \in DOMAIN urlDatabase :
      /\ MatchesPattern(c)
      /\ urlDatabase[c].shortcode = c
      /\ \A d \in {0, 1} :
           RedirectSync(c, urlDatabase, now, d, nextId).res
             # Some(ErrorResponse("redirect", c, 400, "Invalid shortcode format"))
      /\ StatsAfterLog([kind |-> "stats", pc |-> "L201", shortcode |-> c],
                       LoggerLog("ok"), urlDatabase, now, nextId).req.pc = "L236"

\* C19 witness: a custom code and a generated code are stored, the
\* generated one for a body whose shortcode was the empty string
C19_Witness_CustomAndGenerated ==
    /\ CodeAbc \in DOMAIN urlDatabase
    /\ \E g \in GenCodes :
         /\ g \in DOMAIN urlDatabase
         /\ response.kind = "create"
         /\ response.status = 201
         /\ response.request.shortcode = Some(CodeEmpty)
         /\ response.shortLink.path = g

----------------------------------------------------------------------------
(* Properties of the clicks *)

\* C20: no click is recorded past expiry.  In every reachable state every
\* click of every record has a timestamp not after the record's expiry,
\* and the clicks of a record are in non-decreasing order of timestamp,
\* under a clock that only moves forward and may move between the read of
\* the expiry check and the read that stamps the click.  The code does not
\* satisfy the first part: isExpired reads the clock at line 50 and the
\* click is stamped by another read at line 285, so a request checked at
\* the instant of expiry or just before it is stamped after it.
C20_NoClickPastExpiry ==
    \A c \in DOMAIN urlDatabase :
      \A i \in 1..Len(urlDatabase[c].clicks) :
        /\ urlDatabase[c].clicks[i].timestamp <= urlDatabase[c].expiry
        /\ i > 1 => urlDatabase[c].clicks[i - 1].timestamp
                      <= urlDatabase[c].clicks[i].timestamp

====
